---- MODULE Spec2Model ----
(***************************************************************************)
(* Model of eol-test-hdmi (src/src/main.rs): a runner thread (main) that   *)
(* spawns a frame painter thread (frame) and a siren player thread (siren) *)
(* and joins them, frame first.  The framebuffer, console and PCM devices  *)
(* are the environment: every fallible call may succeed or fail.           *)
(***************************************************************************)
EXTENDS Integers, Sequences, FiniteSets, TLC

(* ----------------------------- bounds --------------------------------- *)
\* largest frame buffer length (line_length * fb_height) the device reports
MaxFrameLen == 5

(* ------------------------ program constants --------------------------- *)
FRAME_LENGTH == 1
AUDIO_LENGTH == 1
\* let mut buf = [0i16; 1024]
BufLen == 1024
\* the literal the accepted frame count is compared with in play_sine_wave
ExpectedFrames == 1024

\* var_screen_info.bits_per_pixel values a framebuffer device may report
BitsPerPixel == {16, 24, 32}
\* negotiated buffer sizes hwp.get_buffer_size() may return
BufferSizes == {2048, 4096}
\* frame counts io.writei may accept (a full write or a short one)
WriteiAccepted == {512, 1024}
\* states pcm.state() may report after the writes
PcmStates == {"Prepared", "Running", "XRun"}

(* ------------------------- integer helpers ---------------------------- *)
RECURSIVE Pow2(_)
Pow2(n) == IF n = 0 THEN 1 ELSE 2 * Pow2(n - 1)

\* x << n on a w-bit unsigned integer: the top n bits are shifted out
Shl(x, n, w) == (x % Pow2(w - n)) * Pow2(n)
\* x >> n
Shr(x, n) == x \div Pow2(n)

RECURSIVE BitOr(_, _)
BitOr(a, b) ==
    IF a = 0 THEN b
    ELSE IF b = 0 THEN a
    ELSE (IF (a % 2 = 1) \/ (b % 2 = 1) THEN 1 ELSE 0)
         + 2 * BitOr(a \div 2, b \div 2)

\* uN::to_le_bytes for an n-byte integer
to_le_bytes(x, n) == [i \in 1..n |-> (x \div Pow2(8 * (i - 1))) % 256]

(* --------------------------- colour packing --------------------------- *)
Colors == {"Red", "Green", "Blue"}

\* variant of rgb888_to_rgb565 that shifts green by 3 instead of 2
rgb888_to_rgb565_green3(red, green, blue) ==
    LET r == Shr(red, 3)
        g == Shr(green, 3)
        b == Shr(blue, 3)
    IN  BitOr(BitOr(Shl(r, 11, 16), Shl(g, 5, 16)), b)

\* const fn rgb888_to_rgb565(red: u8, green: u8, blue: u8) -> u16
rgb888_to_rgb565(red, green, blue) ==
    LET r == Shr(red, 3)
        g == Shr(green, 2)
        b == Shr(blue, 3)
    IN  BitOr(BitOr(Shl(r, 11, 16), Shl(g, 5, 16)), b)

\* impl Into<[u8; 4]> for Color
ColorInto4(color) ==
    to_le_bytes(CASE color = "Red"   -> Shl(255, 16, 32)
                  [] color = "Green" -> Shl(255, 8, 32)
                  [] color = "Blue"  -> 255,
                4)

\* impl Into<[u8; 2]> for Color
ColorInto2(color) ==
    to_le_bytes(CASE color = "Red"   -> rgb888_to_rgb565(255, 0, 0)
                  [] color = "Green" -> rgb888_to_rgb565(0, 255, 0)
                  [] color = "Blue"  -> rgb888_to_rgb565(0, 0, 255),
                2)

\* frame.fill_with(|| *color.next()) over color.iter().cycle(): element i
\* receives the value of the i-th call of next(); pos is the iterator's
\* position in the pattern
RECURSIVE fill_with_cycle(_, _, _, _)
fill_with_cycle(frm, pattern, i, pos) ==
    IF i > Len(frm) THEN frm
    ELSE fill_with_cycle([frm EXCEPT ![i] = pattern[pos]], pattern, i + 1,
                         (pos % Len(pattern)) + 1)

SupportedBytespp == {2, 4}

\* frame_set_color for the two supported match arms (the third arm panics,
\* see FrameSetColor)
frame_set_color(frm, color, bpp) ==
    IF bpp = 2 THEN fill_with_cycle(frm, ColorInto2(color), 1, 1)
    ELSE fill_with_cycle(frm, ColorInto4(color), 1, 1)

\* variant of FrameColors with Green and Blue exchanged
FrameColors_swapped == <<"Red", "Blue", "Green">>

\* the three frame_write_color calls of frame(), in program order
FrameColors == <<"Red", "Green", "Blue">>

(* ------------------------------ state --------------------------------- *)
VARIABLES
    \* device geometry (environment)
    bits_per_pixel, frame_size,
    \* runner
    mpc, joined, main_result,
    \* frame painter
    frame_status, fpc, bytespp, frame, fcolor, console, fb_mem, flog, slept,
    text_attempted,
    \* siren player
    siren_status, spc, sstep, buffer_size, swp_threshold, start_threshold,
    tone, iter, buf_pitch, wlog, last_writei, pcm_state, slog
\* pcm_state is the value pcm.state() returned at line 187 ("unread" before);
\* flog, slog and wlog record the calls the devices accepted (wlog: the pitch
\* in buf at each writei call); last_writei is <<>> or <<r>>, r the result of
\* the last writei call

mvars == <<mpc, joined, main_result>>
devvars == <<bits_per_pixel, frame_size>>
fvars == <<frame_status, fpc, bytespp, frame, fcolor, console, fb_mem, flog,
           slept, text_attempted>>
svars == <<siren_status, spc, sstep, buffer_size, swp_threshold,
           start_threshold, tone, iter, buf_pitch, wlog, last_writei,
           pcm_state, slog>>
vars == <<devvars, mvars, fvars, svars>>

\* main has not returned: the process, and with it every thread, is alive
ProcessAlive == mpc # "done"

Init ==
    /\ bits_per_pixel \in BitsPerPixel
    /\ frame_size \in 0..MaxFrameLen
    /\ mpc = "spawn_frame"
    /\ joined = {}
    /\ main_result = "none"
    /\ frame_status = "not_started"
    /\ fpc = "open"
    /\ bytespp = 0
    /\ frame = <<>>
    /\ fcolor = 1
    /\ console = "text"
    /\ fb_mem = <<>>
    /\ flog = <<>>
    /\ slept = 0
    /\ text_attempted = FALSE
    /\ siren_status = "not_started"
    /\ spc = "setup"
    /\ sstep = 1
    /\ buffer_size = 0
    /\ swp_threshold = 0
    /\ start_threshold = 0
    /\ tone = 1
    /\ iter = 0
    /\ buf_pitch = 0
    /\ wlog = <<>>
    /\ last_writei = <<>>
    /\ pcm_state = "unread"
    /\ slog = <<>>

(* --------------------------- frame painter ---------------------------- *)
FrameRunning == ProcessAlive /\ frame_status = "running"

\* Framebuffer::new(FB)?, geometry reads, vec![0u8; line_length * fb_height]
FrameOpen ==
    /\ FrameRunning /\ fpc = "open"
    /\ \/ /\ frame_status' = "Err"
          /\ fpc' = "done"
          /\ UNCHANGED <<bytespp, frame, flog>>
       \/ /\ bytespp' = bits_per_pixel \div 8
          /\ frame' = [i \in 1..frame_size |-> 0]
          /\ flog' = Append(flog, <<"open">>)
          /\ fpc' = "graphics"
          /\ UNCHANGED frame_status
    /\ UNCHANGED <<fcolor, console, fb_mem, slept, text_attempted>>
    /\ UNCHANGED <<devvars, mvars, svars>>

\* Framebuffer::set_kd_mode_ex(TTY, KdMode::Graphics)?
FrameGraphics ==
    /\ FrameRunning /\ fpc = "graphics"
    /\ \/ /\ frame_status' = "Err"
          /\ fpc' = "done"
          /\ UNCHANGED <<console, flog>>
       \/ /\ console' = "graphics"
          /\ flog' = Append(flog, <<"graphics">>)
          /\ fpc' = "set_color"
          /\ UNCHANGED frame_status
    /\ UNCHANGED <<bytespp, frame, fcolor, fb_mem, slept, text_attempted>>
    /\ UNCHANGED <<devvars, mvars, svars>>

\* frame_write_color: frame_set_color(frame, color, bytespp)
FrameSetColor ==
    /\ FrameRunning /\ fpc = "set_color"
    /\ IF bytespp \in SupportedBytespp
       THEN /\ frame' = frame_set_color(frame, FrameColors[fcolor], bytespp)
            /\ fpc' = "write"
            /\ UNCHANGED frame_status
       ELSE \* other => panic!("{other} bytes per pixel is not supported")
            /\ frame_status' = "Panic"
            /\ fpc' = "done"
            /\ UNCHANGED frame
    /\ UNCHANGED <<bytespp, fcolor, console, fb_mem, flog, slept,
                   text_attempted>>
    /\ UNCHANGED <<devvars, mvars, svars>>

\* frame_write_color: framebuffer.write_frame(frame); it returns no Result,
\* its only failure is a panic
FrameWrite ==
    /\ FrameRunning /\ fpc = "write"
    /\ \/ /\ fb_mem' = frame
          /\ flog' = Append(flog, <<"write", FrameColors[fcolor]>>)
          /\ fpc' = "sleep"
          /\ UNCHANGED frame_status
       \/ /\ frame_status' = "Panic"
          /\ fpc' = "done"
          /\ UNCHANGED <<fb_mem, flog>>
    /\ UNCHANGED <<bytespp, frame, fcolor, console, slept, text_attempted>>
    /\ UNCHANGED <<devvars, mvars, svars>>

\* frame_write_color: thread::sleep(Duration::from_secs(FRAME_LENGTH))
FrameSleep ==
    /\ FrameRunning /\ fpc = "sleep"
    /\ slept' = slept + FRAME_LENGTH
    /\ flog' = Append(flog, <<"dwell">>)
    /\ IF fcolor < Len(FrameColors)
       THEN fcolor' = fcolor + 1 /\ fpc' = "set_color"
       ELSE fcolor' = fcolor /\ fpc' = "text"
    /\ UNCHANGED <<frame_status, bytespp, frame, console, fb_mem,
                   text_attempted>>
    /\ UNCHANGED <<devvars, mvars, svars>>

\* Framebuffer::set_kd_mode_ex(TTY, KdMode::Text)?; Ok(())
FrameText ==
    /\ FrameRunning /\ fpc = "text"
    /\ text_attempted' = TRUE
    /\ fpc' = "done"
    /\ \/ /\ frame_status' = "Err"
          /\ UNCHANGED <<console, flog>>
       \/ /\ console' = "text"
          /\ flog' = Append(flog, <<"text">>)
          /\ frame_status' = "Ok"
    /\ UNCHANGED <<bytespp, frame, fcolor, fb_mem, slept>>
    /\ UNCHANGED <<devvars, mvars, svars>>

(* ---------------------------- siren player ---------------------------- *)
SirenRunning == ProcessAlive /\ siren_status = "running"

\* the fallible calls of siren() before the first tone, in program order
SirenSetup ==
    <<"PCM::new", "pcm.info", "info.get_name", "HwParams::any",
      "hwp.set_channels", "hwp.set_rate", "hwp.set_format", "hwp.set_access",
      "pcm.hw_params", "pcm.io_i16", "pcm.hw_params_current",
      "pcm.sw_params_current", "hwp.get_buffer_size",
      "swp.set_start_threshold", "pcm.sw_params">>

\* one setup call: `call(..).context(..)?`
SirenSetupStep ==
    /\ SirenRunning /\ spc = "setup"
    /\ \/ /\ siren_status' = "Err"
          /\ spc' = "done"
          /\ UNCHANGED <<sstep, buffer_size, swp_threshold, start_threshold,
                         pcm_state, slog>>
       \/ /\ LET call == SirenSetup[sstep] IN
             /\ buffer_size' \in IF call = "hwp.get_buffer_size"
                                 THEN BufferSizes ELSE {buffer_size}
             /\ swp_threshold' = IF call = "swp.set_start_threshold"
                                 THEN buffer_size ELSE swp_threshold
             /\ start_threshold' = IF call = "pcm.sw_params"
                                   THEN swp_threshold ELSE start_threshold
             /\ UNCHANGED pcm_state
             /\ slog' = IF call \in {"pcm.hw_params", "pcm.sw_params"}
                        THEN Append(slog, call) ELSE slog
          /\ IF sstep < Len(SirenSetup)
             THEN sstep' = sstep + 1 /\ spc' = "setup"
             ELSE sstep' = sstep /\ spc' = "synth"
          /\ UNCHANGED siren_status
    /\ UNCHANGED <<tone, iter, buf_pitch, wlog, last_writei>>
    /\ UNCHANGED <<devvars, mvars, fvars>>

\* the three play_sine_wave calls of siren(), in program order
Pitches == <<2, 4, 6>>

\* variant of WritesPerTone with an inclusive loop bound
WritesPerTone_plus1 == (AUDIO_LENGTH * 44100) \div 1024 + 1

\* for _ in 0..AUDIO_LENGTH * 44100 / 1024
WritesPerTone == (AUDIO_LENGTH * 44100) \div 1024

\* where siren() continues once the write loop of tone t has run n times
AfterWrite(t, n) ==
    IF n < WritesPerTone THEN "write"
    ELSE IF t < Len(Pitches) THEN "synth" ELSE "state"

\* play_sine_wave: fill buf with the sine wave of the pitch
SirenSynth ==
    /\ SirenRunning /\ spc = "synth"
    /\ buf_pitch' = Pitches[tone]
    /\ iter' = 0
    /\ spc' = AfterWrite(tone, 0)
    /\ tone' = IF AfterWrite(tone, 0) = "synth" THEN tone + 1 ELSE tone
    /\ UNCHANGED <<siren_status, sstep, buffer_size, swp_threshold,
                   start_threshold, wlog, last_writei, pcm_state, slog>>
    /\ UNCHANGED <<devvars, mvars, fvars>>

\* play_sine_wave: assert_eq!(io.writei(buf).context(..)?, 1024);
\* r = -1 stands for writei returning Err
SirenWrite ==
    /\ SirenRunning /\ spc = "write"
    /\ \E r \in WriteiAccepted \cup {-1} :
          /\ last_writei' = <<r>>
          /\ wlog' = Append(wlog, buf_pitch)
          /\ IF r = -1
             THEN /\ siren_status' = "Err"
                  /\ spc' = "done"
                  /\ UNCHANGED <<iter, tone>>
             ELSE IF r # ExpectedFrames
             THEN \* assert_eq! fails: the thread panics
                  /\ siren_status' = "Panic"
                  /\ spc' = "done"
                  /\ UNCHANGED <<iter, tone>>
             ELSE /\ iter' = iter + 1
                  /\ spc' = AfterWrite(tone, iter + 1)
                  /\ tone' = IF AfterWrite(tone, iter + 1) = "synth"
                             THEN tone + 1 ELSE tone
                  /\ UNCHANGED siren_status
    /\ UNCHANGED <<sstep, buffer_size, swp_threshold, start_threshold,
                   buf_pitch, pcm_state, slog>>
    /\ UNCHANGED <<devvars, mvars, fvars>>

\* variant of NeedsStart with the comparison inverted
NeedsStart_inverted(state) == state = "Running"

\* if pcm.state() != State::Running
NeedsStart(state) == state # "Running"

SirenState ==
    /\ SirenRunning /\ spc = "state"
    /\ pcm_state' \in PcmStates
    /\ spc' = IF NeedsStart(pcm_state') THEN "start" ELSE "drain"
    /\ UNCHANGED <<siren_status, sstep, buffer_size, swp_threshold,
                   start_threshold, tone, iter, buf_pitch, wlog, last_writei,
                   slog>>
    /\ UNCHANGED <<devvars, mvars, fvars>>

\* pcm.start().context(..)?
SirenStart ==
    /\ SirenRunning /\ spc = "start"
    /\ \/ /\ siren_status' = "Err"
          /\ spc' = "done"
          /\ UNCHANGED <<pcm_state, slog>>
       \/ /\ slog' = Append(slog, "pcm.start")
          /\ UNCHANGED pcm_state
          /\ spc' = "drain"
          /\ UNCHANGED siren_status
    /\ UNCHANGED <<sstep, buffer_size, swp_threshold, start_threshold, tone,
                   iter, buf_pitch, wlog, last_writei>>
    /\ UNCHANGED <<devvars, mvars, fvars>>

\* pcm.drain().context(..)?; Ok(())
SirenDrain ==
    /\ SirenRunning /\ spc = "drain"
    /\ spc' = "done"
    /\ \/ /\ siren_status' = "Err"
          /\ UNCHANGED <<pcm_state, slog>>
       \/ /\ slog' = Append(slog, "pcm.drain")
          /\ UNCHANGED pcm_state
          /\ siren_status' = "Ok"
    /\ UNCHANGED <<sstep, buffer_size, swp_threshold, start_threshold, tone,
                   iter, buf_pitch, wlog, last_writei>>
    /\ UNCHANGED <<devvars, mvars, fvars>>

(* ------------------------------ runner -------------------------------- *)
\* let frame_thread = thread::spawn(|| frame());
SpawnFrame ==
    /\ mpc = "spawn_frame"
    /\ frame_status' = "running"
    /\ mpc' = "spawn_siren"
    /\ UNCHANGED <<joined, main_result, fpc, bytespp, frame, fcolor, console, fb_mem,
                   flog, slept, text_attempted>>
    /\ UNCHANGED <<devvars, svars>>

\* let siren_thread = thread::spawn(|| siren());
SpawnSiren ==
    /\ mpc = "spawn_siren"
    /\ siren_status' = "running"
    /\ mpc' = "join_frame"
    /\ UNCHANGED <<joined, main_result, spc, sstep, buffer_size, swp_threshold,
                   start_threshold, tone, iter, buf_pitch, wlog, last_writei,
                   pcm_state, slog>>
    /\ UNCHANGED <<devvars, fvars>>

\* JoinHandle::join returns once the thread has returned or panicked
Finished(status) == status \in {"Ok", "Err", "Panic"}

\* variant of FrameJoinOutcome with the two messages exchanged
FrameJoinOutcome_swapped(status) ==
    CASE status = "Panic" -> "Failed to display frames"
      [] status = "Err"   -> "Unable to join frame_thread"
      [] OTHER            -> "continue"

\* if let Ok(s) = frame_thread.join() { s.context(..)?; } else { bail!(..) }
FrameJoinOutcome(status) ==
    CASE status = "Panic" -> "Unable to join frame_thread"
      [] status = "Err"   -> "Failed to display frames"
      [] OTHER            -> "continue"

\* variant of SirenJoinOutcome that drops the thread's own Result
SirenJoinOutcome_unchecked(status) ==
    CASE status = "Panic" -> "Unable to join siren_thread"
      [] OTHER            -> "continue"

\* if let Ok(s) = siren_thread.join() { s.context(..)?; } else { bail!(..) }
SirenJoinOutcome(status) ==
    CASE status = "Panic" -> "Unable to join siren_thread"
      [] status = "Err"   -> "Failed to play sound"
      [] OTHER            -> "continue"

\* main, lines 205-210: a failure returns from main at once
JoinFrame ==
    /\ mpc = "join_frame"
    /\ Finished(frame_status)
    /\ joined' = joined \cup {"frame"}
    /\ IF FrameJoinOutcome(frame_status) = "continue"
       THEN mpc' = "join_siren" /\ UNCHANGED main_result
       ELSE mpc' = "done" /\ main_result' = FrameJoinOutcome(frame_status)
    /\ UNCHANGED <<devvars, fvars, svars>>

\* main, lines 211-217
JoinSiren ==
    /\ mpc = "join_siren"
    /\ Finished(siren_status)
    /\ joined' = joined \cup {"siren"}
    /\ mpc' = "done"
    /\ main_result' = IF SirenJoinOutcome(siren_status) = "continue"
                      THEN "Ok" ELSE SirenJoinOutcome(siren_status)
    /\ UNCHANGED <<devvars, fvars, svars>>

Next ==
    \/ SpawnFrame \/ SpawnSiren
    \/ FrameOpen \/ FrameGraphics \/ FrameSetColor \/ FrameWrite
    \/ FrameSleep \/ FrameText
    \/ SirenSetupStep \/ SirenSynth \/ SirenWrite \/ SirenState
    \/ SirenStart \/ SirenDrain
    \/ JoinFrame \/ JoinSiren

Spec == Init /\ [][Next]_vars

(* ------------------------------ claims -------------------------------- *)
Range(f) == {f[i] : i \in DOMAIN f}

FrameFailures == {"Failed to display frames", "Unable to join frame_thread"}
SirenFailures == {"Failed to play sound", "Unable to join siren_thread"}
Failed(status) == status \in {"Err", "Panic"}

\* C1: when the runner has produced its result, both the frame task and the
\* siren task have finished (the siren is never cut short by the runner
\* returning because the frame task failed).
C1_RunnerWaitsForBoth ==
    mpc = "done" => Finished(frame_status) /\ Finished(siren_status)

\* C2: once the frame painter has switched the console to graphics mode, the
\* frame task never ends without having attempted the switch back to text.
C2_TextModeRestoredOnEveryExit ==
    (Finished(frame_status) /\ <<"graphics">> \in Range(flog))
        => text_attempted

\* C3: painting with a bytes-per-pixel value other than 2 and 4 ends the
\* frame task with Err, not a panic, and the runner reports it as a frame
\* failure.
C3_UnsupportedBppIsCheckedError ==
    (Finished(frame_status) /\ <<"graphics">> \in Range(flog)
        /\ bytespp \notin {2, 4})
        => /\ frame_status = "Err"
           /\ mpc = "done" => main_result = "Failed to display frames"

\* C4: a writei that accepts a frame count other than 1024 ends the siren
\* task with Err, not a panic; the runner reports it as "Failed to play
\* sound", never as a join failure.
C4_ShortWriteIsCheckedError ==
    (last_writei # <<>> /\ last_writei # <<-1>> /\ last_writei # <<1024>>)
        => /\ siren_status = "Err"
           /\ main_result # "Unable to join siren_thread"
           /\ (mpc = "done" /\ frame_status = "Ok")
                  => main_result = "Failed to play sound"

\* C5: the runner returns Ok exactly when both tasks were joined and both
\* returned Ok; a frame failure with siren success is reported as a frame
\* failure, a siren failure with frame success as a siren failure, and when
\* both failed the frame failure is the one surfaced.
C5_ResultAggregation ==
    mpc = "done" =>
        /\ main_result # "none"
        /\ main_result = "Ok" <=>
               (joined = {"frame", "siren"} /\ frame_status = "Ok"
                   /\ siren_status = "Ok")
        /\ (Failed(frame_status) /\ siren_status = "Ok")
               => main_result \in FrameFailures
        /\ (Failed(siren_status) /\ frame_status = "Ok")
               => main_result \in SirenFailures
        /\ (Failed(frame_status) /\ Failed(siren_status))
               => main_result \in FrameFailures

C5_Witness ==
    /\ mpc = "done"
    /\ frame_status = "Ok"
    /\ siren_status = "Err"
    /\ main_result = "Failed to play sound"

C7_ExpectedLog ==
    <<  <<"open">>, <<"graphics">>,
        <<"write", "Red">>, <<"dwell">>,
        <<"write", "Green">>, <<"dwell">>,
        <<"write", "Blue">>, <<"dwell">>,
        <<"text">> >>

C7_Inv ==
    /\ frame_status = "Ok" =>
           /\ bytespp \in {2, 4}
           /\ flog = C7_ExpectedLog
           /\ slept = 3
    /\ Cardinality({i \in DOMAIN flog : flog[i][1] = "write"}) <= 3
    /\ \A i \in DOMAIN flog :
           flog[i][1] = "write" =>
               i >= 3 /\ flog[1] = <<"open">> /\ flog[2] = <<"graphics">>
    /\ <<"graphics">> \notin Range(flog) => fb_mem = <<>>

\* C7: a successful frame run performs exactly open, graphics, (write c,
\* dwell) for c = Red, Green, Blue, text; at most three frames are ever
\* written, each while the console is in graphics mode, and none unless the
\* open and the switch to graphics mode succeeded.
C7_FrameSequence ==
    /\ []C7_Inv
    /\ [][(Len(flog') > Len(flog) /\ flog'[Len(flog')][1] = "write")
              => (console = "graphics" /\ console' = "graphics")]_vars

C7_Witness ==
    frame_status = "Ok" /\ bytespp = 2 /\ flog = C7_ExpectedLog

C8_ExpectedWrites ==
    [i \in 1..129 |-> IF i <= 43 THEN 2 ELSE IF i <= 86 THEN 4 ELSE 6]

C8_Inv ==
    /\ Len(wlog) <= 129
    /\ wlog = SubSeq(C8_ExpectedWrites, 1, Len(wlog))
    /\ (spc \in {"state", "start", "drain"} \/ siren_status = "Ok")
           => wlog = C8_ExpectedWrites /\ last_writei = <<1024>>

\* C8: the writes are 43 of pitch 2, then 43 of pitch 4, then 43 of pitch 6
\* (129 in a run that gets past the tones, each accepting 1024 frames), and
\* no write follows a write that failed.
C8_WriteCount ==
    /\ []C8_Inv
    /\ [][(last_writei # <<>> /\ last_writei # <<1024>>)
              => wlog' = wlog]_vars

C8_Witness ==
    siren_status = "Ok" /\ Len(wlog) = 129 /\ wlog[44] = 4

\* the colour's 8-bit channels <<r, g, b>>
C9_Channels(c) ==
    CASE c = "Red"   -> <<255, 0, 0>>
      [] c = "Green" -> <<0, 255, 0>>
      [] c = "Blue"  -> <<0, 0, 255>>

C9_X == ColorInto4("Red")[4]

C9_Pattern(c, P) ==
    LET r == C9_Channels(c)[1]
        g == C9_Channels(c)[2]
        b == C9_Channels(c)[3]
        v == (r \div 8) * 2048 + (g \div 4) * 32 + (b \div 8)
    IN  IF P = 2 THEN <<v % 256, v \div 256>> ELSE <<b, g, r, C9_X>>

\* C9: right after the frame was painted with colour c at bytes-per-pixel P
\* in {2, 4}, it still has the device's length L and frame[i] is
\* pattern[i % P] (0-based) for every i, pattern being the RGB565
\* little-endian bytes (P = 2) or [B, G, R, X] (P = 4).
C9_FillPattern ==
    fpc \in {"write", "sleep"} =>
        /\ bytespp \in {2, 4}
        /\ Len(frame) = frame_size
        /\ \A i \in 0..(frame_size - 1) :
               frame[i + 1] =
                   C9_Pattern(FrameColors[fcolor], bytespp)[(i % bytespp) + 1]
        /\ fpc = "sleep" => fb_mem = frame

C9_Witness ==
    /\ fpc = "sleep"
    /\ bytespp = 2
    /\ frame_size = 3
    /\ fcolor = 2
    /\ frame = <<224, 7, 224>>

C10_Inv ==
    /\ "pcm.sw_params" \in Range(slog) => slog[1] = "pcm.hw_params"
    /\ wlog # <<>> =>
           /\ SubSeq(slog, 1, 2) = <<"pcm.hw_params", "pcm.sw_params">>
           /\ start_threshold = buffer_size
           /\ buffer_size \in BufferSizes
    /\ (spc = "drain" \/ siren_status = "Ok") =>
           ("pcm.start" \in Range(slog) <=> pcm_state # "Running")
    /\ "pcm.start" \in Range(slog) =>
           pcm_state \in PcmStates \ {"Running"} /\ Len(wlog) = 129
    /\ "pcm.drain" \in Range(slog) =>
           slog[Len(slog)] = "pcm.drain" /\ Len(wlog) = 129
    /\ siren_status = "Ok" => "pcm.drain" \in Range(slog)

\* C10: hw_params is applied before sw_params (start threshold = negotiated
\* buffer size) and both before the first write; after the last write the
\* device is started iff the state read is not Running; drain follows every
\* write, precedes Ok, and no write follows it.
C10_SirenOrder ==
    /\ []C10_Inv
    /\ [][("pcm.drain" \in Range(slog) \/ "pcm.start" \in Range(slog))
              => wlog' = wlog]_vars

C10_Witness ==
    /\ siren_status = "Ok"
    /\ pcm_state = "Prepared"
    /\ slog = <<"pcm.hw_params", "pcm.sw_params", "pcm.start", "pcm.drain">>

====
